---- MODULE Spec2Model ----
(***************************************************************************)
(* The Zip filesystem adapter of pfio (src/pfio/v2/zip.py): directory      *)
(* semantics (stat, exists, isdir, list) computed over the flat, ordered   *)
(* index of a zip archive, the refusal of mutating calls, and the          *)
(* open / close lifecycle of the adapter and of its write handle.          *)
(*                                                                         *)
(* A path is a sequence of one-character strings, so that prefix tests,    *)
(* splitting at "/" and normalisation are computed character by character  *)
(* as the Python code computes them.                                       *)
(***************************************************************************)
EXTENDS Integers, Sequences, FiniteSets, TLC

VARIABLES filelist, mode, fp, writing, call

vars == <<filelist, mode, fp, writing, call>>

(***************************************************************************)
(* Bounds of the model.                                                    *)
(***************************************************************************)
\* the largest number of entries of an archive index
MaxEntries == 2

(***************************************************************************)
(* String primitives of Python used by the adapter.                        *)
(***************************************************************************)
Sep == "/"

\* str.startswith
StartsWith(s, p) ==
    /\ Len(p) <= Len(s)
    /\ SubSeq(s, 1, Len(p)) = p

\* str.endswith("/")
EndsWithSep(s) == Len(s) > 0 /\ s[Len(s)] = Sep

\* s[n:]
DropFirst(s, n) == SubSeq(s, n + 1, Len(s))

RECURSIVE LStrip(_)
LStrip(s) == IF Len(s) > 0 /\ s[1] = Sep THEN LStrip(Tail(s)) ELSE s

RECURSIVE RStrip(_)
RStrip(s) ==
    IF Len(s) > 0 /\ s[Len(s)] = Sep THEN RStrip(SubSeq(s, 1, Len(s) - 1)) ELSE s

\* str.strip("/")
Strip(s) == RStrip(LStrip(s))

\* str.split("/"): the segments between separators, empty ones kept
RECURSIVE SplitFrom(_, _)
SplitFrom(s, cur) ==
    IF s = <<>> THEN <<cur>>
    ELSE IF Head(s) = Sep THEN <<cur>> \o SplitFrom(Tail(s), <<>>)
    ELSE SplitFrom(Tail(s), Append(cur, Head(s)))

Split(s) == SplitFrom(s, <<>>)

\* "/".join(comps)
RECURSIVE JoinSegs(_)
JoinSegs(comps) ==
    IF comps = <<>> THEN <<>>
    ELSE IF Len(comps) = 1 THEN comps[1]
    ELSE comps[1] \o <<Sep>> \o JoinSegs(Tail(comps))

Dot == <<".">>
DotDot == <<".", ".">>

\* the loop of posixpath.normpath over the components
RECURSIVE NormComps(_, _, _)
NormComps(comps, new, rooted) ==
    IF comps = <<>> THEN new
    ELSE LET c == Head(comps)
             rest == Tail(comps)
         IN  IF c = <<>> \/ c = Dot THEN NormComps(rest, new, rooted)
             ELSE IF \/ c # DotDot
                     \/ (~rooted /\ new = <<>>)
                     \/ (new # <<>> /\ new[Len(new)] = DotDot)
                  THEN NormComps(rest, Append(new, c), rooted)
             ELSE IF new # <<>>
                  THEN NormComps(rest, SubSeq(new, 1, Len(new) - 1), rooted)
             ELSE NormComps(rest, new, rooted)

\* os.path.normpath (posix)
NormPath(path) ==
    IF path = <<>> THEN Dot
    ELSE LET slashes ==
                 IF ~StartsWith(path, <<Sep>>) THEN <<>>
                 ELSE IF StartsWith(path, <<Sep, Sep>>)
                         /\ ~StartsWith(path, <<Sep, Sep, Sep>>)
                      THEN <<Sep, Sep>>
                 ELSE <<Sep>>
             body == JoinSegs(NormComps(Split(path), <<>>, slashes # <<>>))
             res == slashes \o body
         IN  IF res = <<>> THEN Dot ELSE res

\* os.path.join (posix) of two parts
PathJoin(a, b) ==
    IF StartsWith(b, <<Sep>>) THEN b
    ELSE IF a = <<>> \/ EndsWithSep(a) THEN a \o b
    ELSE a \o <<Sep>> \o b

\* FS.cwd: the working root of an adapter, empty for a Zip
cwd == <<>>

\* os.path.join(self.cwd, os.path.normpath(path))
Resolve(path) == PathJoin(cwd, NormPath(path))

(***************************************************************************)
(* The archive index: zipfile.ZipFile.filelist, a sequence of entries.     *)
(* An entry keeps the member name and the directory bit of its mode        *)
(* (external_attr >> 16, ZipFileStat.__init__).                            *)
(***************************************************************************)
Entry(n, d) == [filename |-> n, dir |-> d]

NoInfo == Entry(<<>>, FALSE)

\* ZipFile.namelist()
NameList(fl) == [i \in 1..Len(fl) |-> fl[i].filename]

\* name in self.zipobj.namelist()
InNameList(fl, n) == \E i \in 1..Len(fl) : fl[i].filename = n

\* ZipFile.getinfo: NameToInfo keeps the last entry written under a name
GetInfo(fl, n) ==
    LET I == {i \in 1..Len(fl) : fl[i].filename = n}
    IN  fl[CHOOSE i \in I : \A j \in I : j <= i]

\* any(name.startswith(p + "/") for name in self.zipobj.namelist())
AnyUnder(fl, p) ==
    \E i \in 1..Len(fl) : StartsWith(fl[i].filename, p \o <<Sep>>)

\* FileStat.isdir: the directory bit of the entry's mode
StatIsDir(info) == info.dir

\* a stat that looks up the exact name only
StatExact(fl, p) ==
    LET path == Resolve(p)
    IN  IF InNameList(fl, path)
        THEN [err |-> "ok", info |-> GetInfo(fl, path)]
        ELSE [err |-> "FileNotFoundError", info |-> NoInfo]

\* Zip.stat: the exact name, else the name with a separator appended
Stat(fl, p) ==
    LET path == Resolve(p)
    IN  IF InNameList(fl, path)
        THEN [err |-> "ok", info |-> GetInfo(fl, path)]
        ELSE IF ~EndsWithSep(path) /\ InNameList(fl, path \o <<Sep>>)
        THEN [err |-> "ok", info |-> GetInfo(fl, path \o <<Sep>>)]
        ELSE [err |-> "FileNotFoundError", info |-> NoInfo]

\* an exists that also infers a directory from the entries below it
ExistsInferring(fl, p) ==
    LET file_path == Resolve(p)
    IN  \/ InNameList(fl, file_path)
        \/ InNameList(fl, file_path \o <<Sep>>)
        \/ AnyUnder(fl, file_path)

\* Zip.exists
Exists(fl, p) ==
    LET file_path == Resolve(p)
    IN  InNameList(fl, file_path) \/ InNameList(fl, file_path \o <<Sep>>)

\* Zip.isdir: the entry's directory bit, else inferred from deeper entries
IsDir(fl, p) ==
    LET file_path == PathJoin(cwd, p)
    IN  IF Exists(fl, file_path)
        THEN LET st == Stat(fl, file_path)
             IN  IF st.err = "ok"
                 THEN [err |-> "ok", val |-> StatIsDir(st.info)]
                 ELSE [err |-> st.err, val |-> FALSE]
        ELSE [err |-> "ok", val |-> AnyUnder(fl, NormPath(file_path))]

\* Zip.list, the normalisation of the prefix: "cannot move beyond root"
ListPrefix(p) ==
    IF p = <<>> THEN <<>>
    ELSE LET path_or_prefix == Resolve(p)
             given_dir_list == Split(path_or_prefix)
         IN  IF \/ \E i \in 1..Len(given_dir_list) :
                        given_dir_list[i] \in {Dot, DotDot}
                \/ \A i \in 1..Len(given_dir_list) : given_dir_list[i] = <<>>
             THEN <<>>
             ELSE path_or_prefix

\* given_dir_list of Zip.list
GivenDirList(prefix) == IF prefix = <<>> THEN <<>> ELSE Split(prefix)

\* a validation that looks for entries below the prefix first
ListValidateNotFoundFirst(fl, prefix) ==
    IF prefix = <<>> THEN "ok"
    ELSE IF ~AnyUnder(fl, prefix) THEN "FileNotFoundError"
    ELSE IF Exists(fl, prefix) /\ ~IsDir(fl, prefix).val THEN "NotADirectoryError"
    ELSE "ok"

\* Zip.list, the validation of a non-empty prefix
ListValidate(fl, prefix) ==
    IF prefix = <<>> THEN "ok"
    ELSE LET d == IsDir(fl, prefix)
         IN  IF Exists(fl, prefix) /\ d.err # "ok" THEN d.err
             ELSE IF Exists(fl, prefix) /\ ~d.val THEN "NotADirectoryError"
             ELSE IF ~AnyUnder(fl, prefix) THEN "FileNotFoundError"
             ELSE "ok"

\* a recursive branch that yields files only, never a marker entry
RecursiveNameFilesOnly(name, prefix) ==
    IF StartsWith(name, prefix) /\ ~EndsWithSep(name)
    THEN Strip(DropFirst(name, Len(prefix)))
    ELSE <<>>

\* Zip.list, recursive branch: what one index name yields
RecursiveName(name, prefix) ==
    IF StartsWith(name, prefix)
    THEN Strip(DropFirst(name, Len(prefix)))
    ELSE <<>>

RECURSIVE ScanRecursive(_, _)
ScanRecursive(names, prefix) ==
    IF names = <<>> THEN <<>>
    ELSE LET n == RecursiveName(Head(names), prefix)
         IN  (IF n # <<>> THEN <<n>> ELSE <<>>)
             \o ScanRecursive(Tail(names), prefix)

\* Zip.list, non-recursive branch: return_file_name of one index name
ReturnFileName(name, given) ==
    LET current == Split(NormPath(name))
    IN  IF given = <<>> THEN [some |-> TRUE, seg |-> current[1]]
        ELSE IF /\ Len(current) > Len(given)
                /\ SubSeq(current, 1, Len(given)) = given
        THEN [some |-> TRUE, seg |-> current[Len(given) + 1]]
        ELSE [some |-> FALSE, seg |-> <<>>]

\* a scan that forgets the names it has yielded
FreshAlways(r, seen) == r.some

\* return_file_name is not None and return_file_name not in _list
Fresh(r, seen) == r.some /\ r.seg \notin seen

RECURSIVE ScanNonRecursive(_, _, _)
ScanNonRecursive(names, given, seen) ==
    IF names = <<>> THEN <<>>
    ELSE LET r == ReturnFileName(Head(names), given)
         IN  IF Fresh(r, seen)
             THEN <<r.seg>> \o ScanNonRecursive(Tail(names), given, seen \cup {r.seg})
             ELSE ScanNonRecursive(Tail(names), given, seen)

\* Zip.list: the error raised, or the names yielded in order
List(fl, p, recursive) ==
    LET prefix == ListPrefix(p)
        v == ListValidate(fl, prefix)
    IN  IF v # "ok" THEN [err |-> v, names |-> <<>>]
        ELSE IF recursive
        THEN [err |-> "ok", names |-> ScanRecursive(NameList(fl), prefix)]
        ELSE [err |-> "ok",
              names |-> ScanNonRecursive(NameList(fl), GivenDirList(prefix), {})]

(***************************************************************************)
(* The archives and the arguments the operations are applied to.           *)
(* Member names are relative paths of one or two segments, as zipfile      *)
(* writes them, with a trailing separator for a directory marker.  The     *)
(* two segments "d" and "dd" give siblings of which one is a prefix of     *)
(* the other.  A marker carries the directory bit, or, at the top level,   *)
(* may lack it (archives made on other systems store markers without      *)
(* Unix mode bits).                                                        *)
(***************************************************************************)
Segs == {<<"d">>, <<"d", "d">>}

FileNames == Segs \cup {a \o <<Sep>> \o b : a \in Segs, b \in Segs}

EntryPool ==
    {Entry(n, FALSE) : n \in FileNames}
    \cup {Entry(n \o <<Sep>>, TRUE) : n \in FileNames}
    \cup {Entry(n \o <<Sep>>, FALSE) : n \in Segs}

Archives == UNION {[1..n -> EntryPool] : n \in 0..MaxEntries}

\* the paths callers pass: empty, dotted, rooted, with and without a
\* trailing or a doubled separator, present and absent names
Paths ==
    { <<>>, <<".", ".">>, <<"/">>,
      <<"d">>, <<"d", "/">>, <<"d", "d">>,
      <<"d", "/", "d">>, <<"d", "/", "/", "d", "d">>,
      <<".", "/", "d", "d", "/", "d">>,
      <<"d", "/", ".", ".">>, <<"/", "d">> }

\* the mode strings passed to Zip.open
OpenModes == {<<"r">>, <<"w">>, <<"w", "b">>, <<"a">>}

\* mode.replace('b', '')
RECURSIVE ReplaceB(_)
ReplaceB(m) ==
    IF m = <<>> THEN <<>>
    ELSE IF Head(m) = "b" THEN ReplaceB(Tail(m))
    ELSE <<Head(m)>> \o ReplaceB(Tail(m))

NoHandle == [active |-> FALSE, name |-> <<>>]

Call(op, path, arg, err, val, names, info) ==
    [op |-> op, path |-> path, arg |-> arg, err |-> err, val |-> val,
     names |-> names, info |-> info]

NoCall == Call("none", <<>>, <<>>, "ok", FALSE, <<>>, NoInfo)

\* Zip.__init__: the adapter is constructed in read mode over an existing
\* archive, or in write mode over a new, empty one
Init ==
    /\ mode \in {"r", "w"}
    /\ filelist \in (IF mode = "r" THEN Archives ELSE {<<>>})
    /\ fp = "open"
    /\ writing = NoHandle
    /\ call = NoCall

\* an open that does not check the mode the archive was opened in
OpenOutcomeAnyMode(fl, m, f, w, file_path, zmode) ==
    IF zmode \notin {<<"r">>, <<"w">>} THEN {"ValueError"}
    ELSE IF f # "open" THEN {"ValueError"}
    ELSE IF zmode = <<"w">>
    THEN (IF w.active THEN {"ValueError"} ELSE {"ok"})
    ELSE IF ~InNameList(fl, file_path) THEN {"KeyError"}
    ELSE IF w.active THEN {"ValueError"}
    ELSE {"ok"}

\* ZipFile.open as Zip.open calls it: the error raised, or "ok".  The mode
\* must be "r" or "w"; a closed archive refuses both; "w" needs an archive
\* opened for writing and no other write handle; "r" needs the entry, no
\* write handle, and a byte stream that can be read, which the stream of an
\* archive opened for writing may or may not be.  The text wrapper Zip.open
\* puts around the result does not change the outcome.
OpenOutcome(fl, m, f, w, file_path, zmode) ==
    IF zmode \notin {<<"r">>, <<"w">>} THEN {"ValueError"}
    ELSE IF f # "open" THEN {"ValueError"}
    ELSE IF zmode = <<"w">>
    THEN (IF w.active \/ m # "w" THEN {"ValueError"} ELSE {"ok"})
    ELSE IF ~InNameList(fl, file_path) THEN {"KeyError"}
    ELSE IF w.active THEN {"ValueError"}
    ELSE IF m = "w" THEN {"ok", "UnsupportedOperation"}
    ELSE {"ok"}

\* Zip.open
Open(p, omode) ==
    LET file_path == Resolve(p)
        zmode == ReplaceB(omode)
    IN  /\ call = NoCall
        /\ (mode = "w" /\ zmode = <<"w">>) => Len(filelist) < MaxEntries
        /\ \E out \in OpenOutcome(filelist, mode, fp, writing, file_path, zmode) :
              /\ call' = Call("open", p, omode, out, FALSE, <<>>, NoInfo)
              /\ writing' = IF out = "ok" /\ zmode = <<"w">>
                            THEN [active |-> TRUE, name |-> file_path]
                            ELSE writing
        /\ UNCHANGED <<filelist, mode, fp>>

\* _ZipWriteFile.close: the entry written through the handle joins the index
CloseHandle ==
    /\ call = NoCall
    /\ writing.active
    /\ filelist' = Append(filelist, Entry(writing.name, FALSE))
    /\ writing' = NoHandle
    /\ call' = Call("handle.close", writing.name, <<>>, "ok", FALSE, <<>>, NoInfo)
    /\ UNCHANGED <<mode, fp>>

\* Zip.close: ZipFile.close, then the byte stream's close
Close ==
    /\ call = NoCall
    /\ IF fp = "open" /\ writing.active
       THEN /\ call' = Call("close", <<>>, <<>>, "ValueError", FALSE, <<>>, NoInfo)
            /\ fp' = fp
       ELSE /\ call' = Call("close", <<>>, <<>>, "ok", FALSE, <<>>, NoInfo)
            /\ fp' = "closed"
    /\ UNCHANGED <<filelist, mode, writing>>

\* stat, exists, isdir and list read zipobj.namelist() and getinfo(), which
\* ZipFile keeps answering after close: none of them looks at fp.

\* Zip.stat
DoStat(p) ==
    /\ call = NoCall
    /\ LET st == Stat(filelist, p)
       IN  call' = Call("stat", p, <<>>, st.err, FALSE, <<>>, st.info)
    /\ UNCHANGED <<filelist, mode, fp, writing>>

\* Zip.exists
DoExists(p) ==
    /\ call = NoCall
    /\ call' = Call("exists", p, <<>>, "ok", Exists(filelist, p), <<>>, NoInfo)
    /\ UNCHANGED <<filelist, mode, fp, writing>>

\* Zip.isdir
DoIsDir(p) ==
    /\ call = NoCall
    /\ LET d == IsDir(filelist, p)
       IN  call' = Call("isdir", p, <<>>, d.err, d.val, <<>>, NoInfo)
    /\ UNCHANGED <<filelist, mode, fp, writing>>

\* Zip.list, the generator run to its end
DoList(p, recursive) ==
    /\ call = NoCall
    /\ LET l == List(filelist, p, recursive)
       IN  call' = Call("list", p, <<>>, l.err, recursive, l.names, NoInfo)
    /\ UNCHANGED <<filelist, mode, fp, writing>>

\* Zip.mkdir, Zip.makedirs, Zip.rename, Zip.remove: what each raises
\* a removal that refuses only paths the index does not hold
RemoveRaisesIfAbsent(fl, p) ==
    IF Exists(fl, p) THEN "ok" ELSE "UnsupportedOperation"

MkdirRaises(fl, p) == "UnsupportedOperation"

MakedirsRaises(fl, p) == "UnsupportedOperation"

RenameRaises(fl, p) == "UnsupportedOperation"

RemoveRaises(fl, p) == "UnsupportedOperation"

Mkdir(p) ==
    /\ call = NoCall
    /\ call' = Call("mkdir", p, <<>>, MkdirRaises(filelist, p), FALSE, <<>>, NoInfo)
    /\ UNCHANGED <<filelist, mode, fp, writing>>

Makedirs(p) ==
    /\ call = NoCall
    /\ call' = Call("makedirs", p, <<>>, MakedirsRaises(filelist, p), FALSE, <<>>, NoInfo)
    /\ UNCHANGED <<filelist, mode, fp, writing>>

Rename(p) ==
    /\ call = NoCall
    /\ call' = Call("rename", p, <<>>, RenameRaises(filelist, p), FALSE, <<>>, NoInfo)
    /\ UNCHANGED <<filelist, mode, fp, writing>>

Remove(p) ==
    /\ call = NoCall
    /\ call' = Call("remove", p, <<>>, RemoveRaises(filelist, p), FALSE, <<>>, NoInfo)
    /\ UNCHANGED <<filelist, mode, fp, writing>>

\* the call returns (or raises) to the caller, which may then call again
Return ==
    /\ call # NoCall
    /\ call' = NoCall
    /\ UNCHANGED <<filelist, mode, fp, writing>>

Next ==
    \/ \E p \in Paths, m \in OpenModes : Open(p, m)
    \/ CloseHandle
    \/ Close
    \/ \E p \in Paths : DoStat(p)
    \/ \E p \in Paths : DoExists(p)
    \/ \E p \in Paths : DoIsDir(p)
    \/ \E p \in Paths, r \in BOOLEAN : DoList(p, r)
    \/ \E p \in Paths : Mkdir(p)
    \/ \E p \in Paths : Makedirs(p)
    \/ \E p \in Paths : Rename(p)
    \/ \E p \in Paths : Remove(p)
    \/ Return

Spec == Init /\ [][Next]_vars

(***************************************************************************)
(* Vocabulary of the properties, stated over the index itself.             *)
(***************************************************************************)
Range(seq) == {seq[i] : i \in 1..Len(seq)}

\* the set of member names of the index
Names == {filelist[i].filename : i \in 1..Len(filelist)}

\* the entry the index hands out for a name: the last one stored under it
Last(n) ==
    filelist[CHOOSE i \in 1..Len(filelist) :
                 /\ filelist[i].filename = n
                 /\ \A j \in (i + 1)..Len(filelist) : filelist[j].filename # n]

\* d/ + what follows, for an index name n below directory d (root: d = <<>>)
Below(n, d) ==
    IF d = <<>> THEN n
    ELSE IF Len(n) > Len(d) /\ SubSeq(n, 1, Len(d) + 1) = d \o <<Sep>>
    THEN SubSeq(n, Len(d) + 2, Len(n))
    ELSE <<>>

\* some index name starts with d + "/"
HasUnder(d) ==
    \E n \in Names : Len(n) > Len(d) /\ SubSeq(n, 1, Len(d) + 1) = d \o <<Sep>>

\* the immediate child of d that index name n lies in, if n lies below d:
\* the first segment of what follows d/ in n
ChildOf(n, d) ==
    LET rest == Below(n, d)
    IN  IF rest = <<>> THEN [some |-> FALSE, seg |-> <<>>]
        ELSE IF \E k \in 1..Len(rest) : rest[k] = Sep
        THEN [some |-> TRUE,
              seg |-> SubSeq(rest, 1, (CHOOSE k \in 1..Len(rest) :
                                          /\ rest[k] = Sep
                                          /\ \A j \in 1..(k - 1) : rest[j] # Sep) - 1)]
        ELSE [some |-> TRUE, seg |-> rest]

\* d joined with a child name
Under(d, c) == IF d = <<>> THEN c ELSE d \o <<Sep>> \o c

\* the adapter was constructed over an archive without directory markers
NoMarkers == \A n \in Names : n[Len(n)] # Sep

MutatingOps == {"mkdir", "makedirs", "rename", "remove"}

(***************************************************************************)
(* C1: mkdir, makedirs, rename and remove fail with UnsupportedOperation   *)
(* for every path, present in the index or not, and leave the index as it  *)
(* was.                                                                    *)
(***************************************************************************)
C1_MutatorsRefused ==
    [][call'.op \in MutatingOps =>
          /\ call'.err = "UnsupportedOperation"
          /\ filelist' = filelist]_vars

\* remove was refused for a path that is an entry of the index
C1_Witness ==
    /\ call.op = "remove"
    /\ call.path \in Names
    /\ call.err = "UnsupportedOperation"

\* the resolved path is non-empty and not degenerate: it has no dot
\* segment and is not made of separators only, so list keeps it as its
\* prefix instead of falling back to the root
PlainPrefix(d) ==
    /\ d # <<>>
    /\ \A i \in 1..Len(d) : d[i] # "."
    /\ \E i \in 1..Len(d) : d[i] # Sep

\* d is no entry of the index, in either form, but entries lie below it
Inferred(d) ==
    /\ PlainPrefix(d)
    /\ d \notin Names
    /\ d \o <<Sep>> \notin Names
    /\ HasUnder(d)

\* the immediate children of directory d
Children(d) == {ChildOf(n, d).seg : n \in {m \in Names : ChildOf(m, d).some}}

\* the four expectations of the scenario of C2, given what exists answers
\* for an inferred directory
C2_Scenario(existsAnswer) ==
    LET d == Resolve(call.path)
    IN  NoMarkers =>
          /\ (call.op = "exists" /\ Inferred(d)) => call.val = existsAnswer
          /\ (call.op = "isdir" /\ Inferred(d)) =>
                 (call.err = "ok" /\ call.val = TRUE)
          /\ (call.op = "list" /\ ~call.val /\ Inferred(d)) =>
                 /\ call.err = "ok"
                 /\ Range(call.names) = Children(d)
                 /\ Len(call.names) = Cardinality(Children(d))
          /\ (call.op = "list" /\ ~call.val /\ PlainPrefix(d)
                /\ d \notin Names /\ ~HasUnder(d)) =>
                 (call.err = "FileNotFoundError" /\ call.names = <<>>)

(***************************************************************************)
(* C2, as stated: in an archive without directory markers, a directory d   *)
(* that only the entry paths imply has exists(d) true, isdir(d) true,      *)
(* list(d) yielding exactly its immediate children, and list of a name     *)
(* that is neither an entry nor a prefix of one raises NotFound.           *)
(***************************************************************************)
C2_Original == C2_Scenario(TRUE)

(***************************************************************************)
(* C2, amended: as stated, except that exists(d) is false for a directory  *)
(* that only the entry paths imply: exists looks the name up in the index  *)
(* (bare or with a separator appended) and infers nothing.                 *)
(***************************************************************************)
C2_InferredDirectory == C2_Scenario(FALSE)

\* exists was asked about a directory implied only by a deeper entry
C2_Witness ==
    /\ NoMarkers
    /\ call.op = "exists"
    /\ Inferred(Resolve(call.path))
    /\ call.val = FALSE

\* the last entry stored under the name a path resolves to
Resolved(p) ==
    LET r == Resolve(p)
    IN  IF r \in Names THEN Last(r) ELSE Last(r \o <<Sep>>)

ResolvesToEntry(p) ==
    Resolve(p) \in Names \/ Resolve(p) \o <<Sep>> \in Names

(***************************************************************************)
(* C3: isdir(d) is true for every d, the root included, for which          *)
(* list(d, recursive=False) yields at least one name, and isdir(p) is      *)
(* false for every p that resolves to a regular-file entry.                *)
(***************************************************************************)
C3_Original ==
    call.op = "isdir" =>
       /\ (LET l == List(filelist, call.path, FALSE)
           IN  l.err = "ok" /\ l.names # <<>>)
             => (call.err = "ok" /\ call.val = TRUE)
       /\ (ResolvesToEntry(call.path) /\ ~Resolved(call.path).dir)
             => (call.err = "ok" /\ call.val = FALSE)

ExistingNonDirectory(d) ==
    \/ d \in Names /\ ~Last(d).dir
    \/ d \notin Names /\ d \o <<Sep>> \in Names /\ ~Last(d \o <<Sep>>).dir

(***************************************************************************)
(* C9: list with a non-empty, non-degenerate prefix, recursive or not,     *)
(* validates the prefix before yielding: an existing entry that is not a   *)
(* directory fails with NotADirectory (first), else a prefix with no       *)
(* entry starting with prefix + "/" fails with NotFound; a failed list     *)
(* yields no name.                                                         *)
(***************************************************************************)
C9_ListValidation ==
    (call.op = "list" /\ PlainPrefix(Resolve(call.path))) =>
       LET d == Resolve(call.path)
       IN  /\ ExistingNonDirectory(d) =>
                 (call.err = "NotADirectoryError" /\ call.names = <<>>)
           /\ (~ExistingNonDirectory(d) /\ ~HasUnder(d)) =>
                 (call.err = "FileNotFoundError" /\ call.names = <<>>)
           /\ (~ExistingNonDirectory(d) /\ HasUnder(d)) => call.err = "ok"

\* a recursive list of a regular-file entry with nothing below it: both
\* failures apply and NotADirectory is the one raised
C9_Witness ==
    /\ call.op = "list"
    /\ call.val = TRUE
    /\ PlainPrefix(Resolve(call.path))
    /\ ExistingNonDirectory(Resolve(call.path))
    /\ ~HasUnder(Resolve(call.path))
    /\ call.err = "NotADirectoryError"

\* the prefix list works with: the resolved path, or the root
PrefixOf(p) == IF PlainPrefix(Resolve(p)) /\ p # <<>> THEN Resolve(p) ELSE <<>>

\* d is a directory prefix holding at least one entry
DirectoryWithEntries(d) ==
    IF d = <<>> THEN Names # {}
    ELSE HasUnder(d) /\ ~ExistingNonDirectory(d)

\* the position of the first index entry lying in child c of d
FirstSeen(c, d) ==
    CHOOSE i \in 1..Len(filelist) :
        /\ ChildOf(filelist[i].filename, d) = [some |-> TRUE, seg |-> c]
        /\ \A j \in 1..(i - 1) :
               ChildOf(filelist[j].filename, d) # [some |-> TRUE, seg |-> c]

(***************************************************************************)
(* C4: for every index, in any order, with or without markers, and every   *)
(* directory prefix d holding at least one entry, list(d, recursive=False) *)
(* yields each immediate child name exactly once, in first-seen index      *)
(* order, and every yielded name joined to d is an index entry or the      *)
(* path prefix of a deeper index entry.                                    *)
(***************************************************************************)
C4_ImmediateChildren ==
    (call.op = "list" /\ ~call.val /\ DirectoryWithEntries(PrefixOf(call.path))) =>
       LET d == PrefixOf(call.path)
           out == call.names
       IN  /\ call.err = "ok"
           /\ Range(out) = Children(d)
           /\ \A i, j \in 1..Len(out) : i # j => out[i] # out[j]
           /\ \A i, j \in 1..Len(out) :
                  i < j => FirstSeen(out[i], d) < FirstSeen(out[j], d)
           /\ \A c \in Range(out) :
                  Under(d, c) \in Names \/ HasUnder(Under(d, c))

\* a listing of a directory below the root in which two entries lie in the
\* same child, yielded once
C4_Witness ==
    /\ call.op = "list"
    /\ ~call.val
    /\ call.err = "ok"
    /\ PrefixOf(call.path) # <<>>
    /\ Len(call.names) = 1
    /\ \E i, j \in 1..Len(filelist) :
          /\ i # j
          /\ filelist[i].filename # filelist[j].filename
          /\ ChildOf(filelist[i].filename, PrefixOf(call.path)).seg = call.names[1]
          /\ ChildOf(filelist[j].filename, PrefixOf(call.path)).seg = call.names[1]

ReadingOps == {"open", "stat", "list", "exists", "isdir"}

(***************************************************************************)
(* C5: after close(), every later operation other than close (open, stat,  *)
(* list, exists, isdir) fails with an error instead of answering from the  *)
(* archive index.                                                          *)
(***************************************************************************)
C5_Original ==
    (fp = "closed" /\ call.op \in ReadingOps) => call.err # "ok"

\* the mode string of an open call asks for writing
WriteMode(m) == \E i \in 1..Len(m) : m[i] = "w"

RECURSIVE Flatten(_, _, _)
Flatten(fl, d, fuel) ==
    LET l == List(fl, d, FALSE)
    IN  IF fuel = 0 \/ l.err # "ok" THEN {}
        ELSE UNION { {c} \cup {c \o <<Sep>> \o r :
                                  r \in Flatten(fl, Under(d, c), fuel - 1)} :
                     c \in Range(l.names) }

\* no index name has more segments than characters
Fuel == IF Names = {} THEN 0
        ELSE CHOOSE k \in {Len(n) : n \in Names} :
                 \A n \in Names : Len(n) <= k

C7_Superset ==
    (call.op = "list" /\ call.val /\ call.err = "ok") =>
       LET flat == Flatten(filelist, PrefixOf(call.path), Fuel)
       IN  /\ flat \subseteq Range(call.names)
           /\ Cardinality(flat) <= Len(call.names)

\* the proper ancestor directories of an index name
Ancestors(n) ==
    {SubSeq(n, 1, k - 1) : k \in {i \in 2..(Len(n) - 1) : n[i] = Sep}}

\* member names are relative names of plain segments, and every directory
\* an entry lies in has its marker in the index
ExplicitDirectories ==
    \A n \in Names :
       /\ PlainPrefix(n) /\ n[1] # Sep
       /\ \A a \in Ancestors(n) : a \o <<Sep>> \in Names

(***************************************************************************)
(* C7, as stated: for every index and directory d, list(d, recursive=True) *)
(* yields a superset of, and at least as many names as, the flattening of  *)
(* list(., recursive=False) applied transitively from d, for archives      *)
(* with directory markers and for archives without them.                   *)
(***************************************************************************)
C7_Original == C7_Superset

(***************************************************************************)
(* C7, amended: the same, for archives in which every directory that       *)
(* holds an entry has its own marker entry; the recursive listing yields   *)
(* index entries only, so a directory that the entry paths merely imply    *)
(* is yielded by the non-recursive listing alone.                          *)
(***************************************************************************)
C7_SupersetWithMarkers == ExplicitDirectories => C7_Superset

\* a recursive listing of the root of an archive with markers whose
\* flattening reaches an entry two levels down
C7_Witness ==
    /\ ExplicitDirectories
    /\ call.op = "list"
    /\ call.val
    /\ call.err = "ok"
    /\ \E r \in Flatten(filelist, PrefixOf(call.path), Fuel) :
          \E i \in 1..Len(r) : r[i] = Sep

(***************************************************************************)
(* C10: every name r yielded by list(d, recursive=True) for a non-empty    *)
(* directory prefix d is an entry inside d: d + "/" + r, or that path      *)
(* with a trailing "/", is in the index; entries of a sibling whose name   *)
(* only begins with the characters of d are never yielded.                 *)
(***************************************************************************)
C10_Original ==
    (call.op = "list" /\ call.val /\ call.err = "ok"
        /\ PrefixOf(call.path) # <<>>) =>
       \A r \in Range(call.names) :
          LET n == PrefixOf(call.path) \o <<Sep>> \o r
          IN  n \in Names \/ n \o <<Sep>> \in Names

====
